---- MODULE Spec2Model ----
(***************************************************************************)
(* Model of fabric_rti_mcp/tools: the lakehouse SQL tools                  *)
(* (lakehouse_sql_tool.py) and the semantic model REST client              *)
(* (semantic_model_service.py).                                            *)
(*                                                                         *)
(* The program is single threaded and synchronous: a tool call runs to its *)
(* end before the next one starts.  Each tool function is one action.  An  *)
(* action draws the function's arguments and the answers of the outside    *)
(* world (ODBC driver, identity library, HTTP server) with \E, runs the    *)
(* function body and leaves in `events' the ordered list of the externally *)
(* visible steps the body took and in `outcome' what reached the caller.   *)
(***************************************************************************)
EXTENDS Integers, Sequences, FiniteSets, TLC

VARIABLES
    env,        \* the process environment (os.getenv), fixed for a run
    call,       \* the call in progress or just finished: function, arguments, world's answers
    events,     \* ordered steps taken by that call
    outcome,    \* what the call handed to its caller: a value or an exception
    openConns   \* ODBC connection handles currently open

vars == <<env, call, events, outcome, openConns>>

----------------------------------------------------------------------------
(* Bounds of the model *)

\* how many rows a result set of the driver holds at most
MaxRows == 2
\* how far around the sampling cap the requested limits range
MaxOver == 2
\* how many datasets a workspace listing holds at most
MaxDatasets == 2
\* how many rows a relationship query answers at most
MaxRelRows == 2
\* how many characters an access token holds at most
MaxTokenLen == 2

----------------------------------------------------------------------------
(* Python values *)

\* Python's None, as an environment value
None == "None"

\* truthiness of an environment value: `not X' holds for None and for ""
Truthy(v) == v # None /\ v # ""

\* the connection handle that is None (a handle is a number, 0 is None)
NoConn == 0

Ev(op, arg) == [op |-> op, arg |-> arg]

NoExc == [type |-> "-", at |-> "-", msg |-> <<>>]
Exc(type, at, msg) == [type |-> type, at |-> at, msg |-> msg]

\* the result of running a function body
Raise(ev, exc)     == [events |-> ev, kind |-> "raise", exc |-> exc, value |-> <<>>, conn |-> NoConn]
Return(ev, v)      == [events |-> ev, kind |-> "return", exc |-> NoExc, value |-> v, conn |-> NoConn]
ReturnConn(ev, c)  == [events |-> ev, kind |-> "return", exc |-> NoExc, value |-> <<>>, conn |-> c]

\* ", ".join(names), as the list of its pieces
RECURSIVE Join(_, _)
Join(names, sep) ==
    IF names = <<>> THEN <<>>
    ELSE IF Len(names) = 1 THEN names
    ELSE <<Head(names), sep>> \o Join(Tail(names), sep)

\* how many events of a list have the given op
RECURSIVE CountOp(_, _)
CountOp(ev, op) ==
    IF ev = <<>> THEN 0
    ELSE (IF Head(ev).op = op THEN 1 ELSE 0) + CountOp(Tail(ev), op)

\* position of the first event with the given op, 0 when there is none
RECURSIVE FirstAt(_, _, _)
FirstAt(ev, op, i) ==
    IF i > Len(ev) THEN 0
    ELSE IF ev[i].op = op THEN i
    ELSE FirstAt(ev, op, i + 1)

FirstIndex(ev, op) == FirstAt(ev, op, 1)

----------------------------------------------------------------------------
(* Configuration: lakehouse_sql_tool.py lines 145-160 *)

SQL_ENDPOINT == "FABRIC_SQL_ENDPOINT"
LAKEHOUSE_NAME == "FABRIC_LAKEHOUSE_NAME"
SEMANTIC_MODEL_CONNECTION == "FABRIC_SEMANTIC_MODEL_CONNECTION"
WORKSPACE_ID == "FABRIC_WORKSPACE_ID"

EnvVars == {SQL_ENDPOINT, LAKEHOUSE_NAME, SEMANTIC_MODEL_CONNECTION, WORKSPACE_ID}
EnvValues == {None, "", "set"}

\* the variables validate_config looks at, in the order of its tests
ConfigChecked == <<SQL_ENDPOINT, LAKEHOUSE_NAME, SEMANTIC_MODEL_CONNECTION>>

\* a step raised exc: the step's mark in the list of events
Raised(exc) == Ev("raised", exc)

ConfigError(names) ==
    Exc("RuntimeError", "validate_config",
        <<"Missing required environment variables: ">>
          \o Join(names, ", ")
          \o <<". Please set them in your .env file.">>)

\* validate_config raising on the first missing variable only
validate_config_first(e) ==
    LET missing == SelectSeq(ConfigChecked, LAMBDA v : ~Truthy(e[v]))
    IN  IF missing # <<>>
        THEN Raise(<<Ev("validate_config", ""), Raised(ConfigError(<<Head(missing)>>))>>,
                   ConfigError(<<Head(missing)>>))
        ELSE Return(<<Ev("validate_config", "")>>, <<>>)

validate_config(e) ==
    LET missing == SelectSeq(ConfigChecked, LAMBDA v : ~Truthy(e[v]))
    IN  IF missing # <<>>
        THEN Raise(<<Ev("validate_config", ""), Raised(ConfigError(missing))>>,
                   ConfigError(missing))
        ELSE Return(<<Ev("validate_config", "")>>, <<>>)

\* _get_connection without the call of validate_config
_get_connection_unvalidated(e) ==
    ReturnConn(<<Ev("_get_connection.return", NoConn)>>, NoConn)

\* _get_connection: validates, reads the two settings, and ends there (line
\* 178): the function falls off its end and hands back None.  The token and
\* pyodbc.connect code that follows in the file (lines 261-295) sits behind
\* the return/raise of semantic_model_list_relationships and is never run.
_get_connection(e) ==
    LET v == validate_config(e)
    IN  IF v.kind = "raise" THEN v
        ELSE ReturnConn(v.events \o <<Ev("_get_connection.return", NoConn)>>, NoConn)

----------------------------------------------------------------------------
(* The ODBC driver as the SQL tools see it *)

\* where the driver fails during one call ("none": nowhere)
DriverFailures == {"none", "timeout", "cursor", "lock_timeout", "execute", "fetchall"}

RowValues == {<<"dbo", "t1">>, <<"dbo", "t2">>}

\* the result sets the driver may hand back: up to MaxRows rows
ResultSets == UNION {[1..n -> RowValues] : n \in 0..MaxRows}

\* the driver's answers during one call
Drivers == [fail : DriverFailures, close : {"ok", "err"}, rows : ResultSets]

Fails(names, fail) == \E j \in 1..Len(names) : names[j] = fail

\* the steps up to and including the failing one, all of them when none fails
Attempted(steps, names, fail) ==
    IF Fails(names, fail)
    THEN SubSeq(steps, 1, CHOOSE j \in 1..Len(names) : names[j] = fail)
    ELSE steps

DriverError(at) == Exc("pyodbc.Error", at, <<>>)

\* what Python raises for an attribute of None
AttributeErrorNone(attr) ==
    Exc("AttributeError", attr, <<"'NoneType' object has no attribute">>)

\* a finally clause that closes the handle, run after the try statement's
\* result r: an exception raised by close() replaces what r carried
FinallyClose(r, conn, d) ==
    IF conn = NoConn
    THEN Raise(r.events \o <<Raised(AttributeErrorNone("conn.close"))>>,
               AttributeErrorNone("conn.close"))
    ELSE IF d.close = "err"
    THEN Raise(r.events \o <<Ev("close", conn), Raised(DriverError("conn.close"))>>,
               DriverError("conn.close"))
    ELSE [r EXCEPT !.events = r.events \o <<Ev("close", conn)>>]

----------------------------------------------------------------------------
(* lakehouse_sql_query: lakehouse_sql_tool.py lines 298-324 *)

\* the try statement of lines 312-322, with its except clause
SqlQueryTry(ev, conn, query, d) ==
    LET names == <<"cursor", "lock_timeout", "execute", "fetchall">>
        steps == <<Ev("cursor", conn), Ev("execute", "SET LOCK_TIMEOUT 30000;"),
                   Ev("execute", query), Ev("fetchall", conn)>>
        done  == ev \o Attempted(steps, names, d.fail)
    IN  IF Fails(names, d.fail)
        THEN Raise(done \o <<Raised(DriverError(d.fail)),
                             Ev("log.error", "Error executing query")>>,
                   DriverError(d.fail))
        ELSE Return(done \o <<Ev("log.info", "Query executed successfully")>>, d.rows)

\* lakehouse_sql_query with the whole body under an except clause that logs
\* and hands back an empty list
lakehouse_sql_query_swallow(e, query, timeout, d) ==
    LET ev0 == <<Ev("lakehouse_sql_query", query), Ev("log.info", "Executing SQL query")>>
        g   == _get_connection(e)
        ev1 == ev0 \o g.events
        r   == IF g.kind = "raise"
               THEN Raise(ev1, g.exc)
               ELSE IF g.conn = NoConn
               THEN Raise(ev1 \o <<Raised(AttributeErrorNone("conn.timeout"))>>,
                          AttributeErrorNone("conn.timeout"))
               ELSE IF d.fail = "timeout"
               THEN Raise(ev1 \o <<Ev("set_timeout", timeout), Raised(DriverError("conn.timeout"))>>,
                          DriverError("conn.timeout"))
               ELSE FinallyClose(SqlQueryTry(ev1 \o <<Ev("set_timeout", timeout)>>, g.conn, query, d),
                                 g.conn, d)
    IN  IF r.kind = "raise"
        THEN Return(r.events \o <<Ev("log.error", "Error executing query")>>, <<>>)
        ELSE r

lakehouse_sql_query(e, query, timeout, d) ==
    LET ev0 == <<Ev("lakehouse_sql_query", query), Ev("log.info", "Executing SQL query")>>
        g   == _get_connection(e)
        ev1 == ev0 \o g.events
    IN  IF g.kind = "raise"
        THEN Raise(ev1, g.exc)
        ELSE IF g.conn = NoConn
        THEN \* line 311, before the try: None has no attribute timeout
             Raise(ev1 \o <<Raised(AttributeErrorNone("conn.timeout"))>>,
                   AttributeErrorNone("conn.timeout"))
        ELSE IF d.fail = "timeout"
        THEN Raise(ev1 \o <<Ev("set_timeout", timeout), Raised(DriverError("conn.timeout"))>>,
                   DriverError("conn.timeout"))
        ELSE FinallyClose(SqlQueryTry(ev1 \o <<Ev("set_timeout", timeout)>>, g.conn, query, d),
                          g.conn, d)

----------------------------------------------------------------------------
(* lakehouse_describe_table: lakehouse_sql_tool.py lines 349-380 *)

DescribeQuery(schema_name, table_name) ==
    [sql |-> "describe", params |-> <<schema_name, table_name>>]

\* the try statement of lines 375-378: it has no except clause
DescribeTry(ev, conn, query, d) ==
    LET names == <<"cursor", "execute", "fetchall">>
        steps == <<Ev("cursor", conn), Ev("execute", query), Ev("fetchall", conn)>>
        done  == ev \o Attempted(steps, names, d.fail)
    IN  IF conn = NoConn
        THEN Raise(ev \o <<Raised(AttributeErrorNone("conn.cursor"))>>,
                   AttributeErrorNone("conn.cursor"))
        ELSE IF Fails(names, d.fail)
        THEN Raise(done \o <<Raised(DriverError(d.fail))>>, DriverError(d.fail))
        ELSE Return(done, d.rows)

lakehouse_describe_table(e, schema_name, table_name, d) ==
    LET g == _get_connection(e)
    IN  IF g.kind = "raise"
        THEN Raise(g.events, g.exc)
        ELSE FinallyClose(DescribeTry(g.events, g.conn, DescribeQuery(schema_name, table_name), d),
                          g.conn, d)

----------------------------------------------------------------------------
(* lakehouse_sample_table: lakehouse_sql_tool.py lines 383-402 *)

\* the ceiling of line 396
SampleCap == 1000

\* Python's min(a, b)
Min(a, b) == IF b < a THEN b ELSE a

Digit(k) == <<"0", "1", "2", "3", "4", "5", "6", "7", "8", "9">>[k + 1]

\* str(n) of a non-negative integer, as the list of its characters
RECURSIVE NatStr(_)
NatStr(n) == IF n < 10 THEN <<Digit(n)>> ELSE NatStr(n \div 10) \o <<Digit(n % 10)>>

\* what an f-string writes for the integer n
IntStr(n) == IF n < 0 THEN <<"-">> \o NatStr(0 - n) ELSE NatStr(n)

\* the statement of lines 398-401
SampleQuery(schema_name, table_name, limit) ==
    [sql |-> "sample", top |-> IntStr(limit), schema |-> schema_name, table |-> table_name]

\* lakehouse_sample_table without the ceiling
lakehouse_sample_table_uncapped(e, schema_name, table_name, limit, d) ==
    lakehouse_sql_query(e, SampleQuery(schema_name, table_name, limit), 30, d)

lakehouse_sample_table(e, schema_name, table_name, limit, d) ==
    lakehouse_sql_query(e, SampleQuery(schema_name, table_name, Min(limit, SampleCap)), 30, d)

----------------------------------------------------------------------------
(* Result coercion: lakehouse_sql_tool.py lines 120-125 and 493-498 *)

\* a column value as the driver hands it over: None, an int, a float (held
\* in tenths), a string (as its characters) or a value of another type
CountValues ==
    {[t |-> "none", n |-> 0, s |-> <<>>]}
    \cup [t : {"int"}, n : {0, 7, -3}, s : {<<>>}]
    \cup [t : {"float"}, n : {25, -25}, s : {<<>>}]
    \cup [t : {"str"}, n : {0}, s : {<<"1", "2">>, <<"-", "4">>, <<"x">>, <<>>, <<"1", "x">>}]
    \cup {[t |-> "other", n |-> 0, s |-> <<>>]}

IsDigit(c) == \E k \in 0..9 : Digit(k) = c

\* the characters are an integer literal int() accepts: a sign or none, then digits
IsIntLiteral(cs) ==
    LET ds == IF cs # <<>> /\ Head(cs) = "-" THEN Tail(cs) ELSE cs
    IN  ds # <<>> /\ \A i \in 1..Len(ds) : IsDigit(ds[i])

\* the digits read left to right
RECURSIVE ReadDigits(_, _)
ReadDigits(ds, acc) ==
    IF ds = <<>> THEN acc
    ELSE ReadDigits(Tail(ds), 10 * acc + (CHOOSE k \in 0..9 : Digit(k) = Head(ds)))

\* int(val): the integer, or the exception int() raises
PyInt(val) ==
    IF val.t = "int" THEN [err |-> "-", n |-> val.n]
    ELSE IF val.t = "float"
    THEN [err |-> "-", n |-> IF val.n < 0 THEN 0 - ((0 - val.n) \div 10) ELSE val.n \div 10]
    ELSE IF val.t = "str"
    THEN IF IsIntLiteral(val.s)
         THEN [err |-> "-",
               n |-> IF Head(val.s) = "-" THEN 0 - ReadDigits(Tail(val.s), 0)
                     ELSE ReadDigits(val.s, 0)]
         ELSE [err |-> "ValueError", n |-> 0]
    ELSE [err |-> "TypeError", n |-> 0]

\* safe_int catching ValueError only
safe_int_value_error_only(val) ==
    IF val.t = "none" THEN [err |-> "TypeError", n |-> 0]
    ELSE LET r == PyInt(val)
         IN  IF r.err = "ValueError" THEN [err |-> "-", n |-> 0] ELSE r

\* safe_int, lines 120-124 (and 493-497): the integer, or the exception
\* that leaves it
safe_int(val) ==
    IF val.t = "none" THEN [err |-> "-", n |-> 0]
    ELSE LET r == PyInt(val)
         IN  IF r.err \in {"ValueError", "TypeError"} THEN [err |-> "-", n |-> 0] ELSE r

\* rows of the row-count query: schema, table, row count
V2RowValues == {<<"dbo", "t1", v>> : v \in CountValues}
V2ResultSets == UNION {[1..n -> V2RowValues] : n \in 0..MaxRows}

\* the list comprehension of line 125
CoerceRowCounts(ev, results) ==
    IF \E i \in 1..Len(results) : safe_int(results[i][3]).err # "-"
    THEN LET k == CHOOSE i \in 1..Len(results) :
                      /\ safe_int(results[i][3]).err # "-"
                      /\ \A j \in 1..(i - 1) : safe_int(results[j][3]).err = "-"
             x == Exc(safe_int(results[k][3]).err, "safe_int", <<>>)
         IN  Raise(ev \o <<Raised(x)>>, x)
    ELSE Return(ev \o <<Ev("log.info", "row_count coerced to int")>>,
                [i \in 1..Len(results) |->
                    <<results[i][1], results[i][2], safe_int(results[i][3]).n>>])

\* lakehouse_list_tables_v2, lines 99-127
lakehouse_list_tables_v2(e, d) ==
    LET r == lakehouse_sql_query(e, [sql |-> "list_tables_v2"], 30, d)
        ev == <<Ev("log.info", "Listing all tables with row counts")>> \o r.events
    IN  IF r.kind = "raise" THEN Raise(ev, r.exc)
        ELSE CoerceRowCounts(ev, r.value)

----------------------------------------------------------------------------
(* The other introspection tools: lakehouse_sql_tool.py lines 327-346, 405-498 *)

\* lakehouse_list_tables, lines 327-346
lakehouse_list_tables(e, d) ==
    LET r == lakehouse_sql_query(e, [sql |-> "list_tables"], 30, d)
        ev == <<Ev("log.info", "Listing all tables")>> \o r.events
    IN  IF r.kind = "raise" THEN Raise(ev, r.exc)
        ELSE Return(ev \o <<Ev("log.info", "Found tables")>>,
                    [i \in 1..Len(r.value) |-> <<r.value[i][1], r.value[i][2]>>])

\* lakehouse_find_relationships, lines 405-430
lakehouse_find_relationships(e, d) ==
    lakehouse_sql_query(e, [sql |-> "find_relationships"], 30, d)

\* lakehouse_find_primary_keys, lines 436-462
lakehouse_find_primary_keys(e, d) ==
    lakehouse_sql_query(e, [sql |-> "find_primary_keys"], 30, d)

\* rows of the statistics query: schema, table count, column count,
\* relationship column count
StatsRowValues ==
    {<<"dbo", a, b, [t |-> "int", n |-> 0, s |-> <<>>]>> :
         a \in CountValues,
         b \in {[t |-> "none", n |-> 0, s |-> <<>>], [t |-> "int", n |-> 7, s |-> <<>>]}}
StatsResultSets == UNION {[1..n -> StatsRowValues] : n \in 0..MaxRows}

\* the list comprehension of line 498
CoerceStats(ev, results) ==
    IF \E i \in 1..Len(results), c \in 2..3 : safe_int(results[i][c]).err # "-"
    THEN LET x == Exc("TypeError", "safe_int", <<>>)
         IN  Raise(ev \o <<Raised(x)>>, x)
    ELSE Return(ev, [i \in 1..Len(results) |->
                       <<results[i][1], safe_int(results[i][2]).n, safe_int(results[i][3]).n>>])

\* lakehouse_get_schema_stats, lines 465-498
lakehouse_get_schema_stats(e, d) ==
    LET r == lakehouse_sql_query(e, [sql |-> "schema_stats"], 30, d)
    IN  IF r.kind = "raise" THEN r
        ELSE CoerceStats(r.events, r.value)

----------------------------------------------------------------------------
(* Semantic model over pyadomd: lakehouse_sql_tool.py lines 180-218 *)

\* get_semantic_model_connection, lines 180-190: the default of line 186
\* makes the test of line 187 false always
get_semantic_model_connection(e) ==
    LET v == validate_config(e)
    IN  IF v.kind = "raise" THEN v
        ELSE Return(v.events, IF Truthy(e[SEMANTIC_MODEL_CONNECTION])
                              THEN e[SEMANTIC_MODEL_CONNECTION]
                              ELSE "powerbi://api.powerbi.com/v1.0/myorg/YourWorkspace")

\* what importing pyadomd and opening the endpoint do
AdomdAnswers == [import : {"ok", "err"}, open : {"ok", "err"}]

\* semantic_model_query, lines 195-218: the with block holds `pass' and the
\* function ends after it with no return statement
semantic_model_query(e, query, w) ==
    LET ev0 == <<Ev("log.info", "Semantic model query requested")>>
        c   == get_semantic_model_connection(e)
        ev1 == ev0 \o c.events
        imp == Exc("ImportError", "import pyadomd", <<>>)
        opn == Exc("AdomdError", "Pyadomd.__enter__", <<>>)
    IN  IF c.kind = "raise" THEN Raise(ev1, c.exc)
        ELSE IF w.import = "err"
        THEN Raise(ev1 \o <<Raised(imp), Ev("log.error", "pyadomd is required")>>, imp)
        ELSE IF w.open = "err"
        THEN Raise(ev1 \o <<Ev("adomd.open", c.value), Raised(opn),
                            Ev("log.error", "Error executing semantic model query")>>, opn)
        ELSE Return(ev1 \o <<Ev("adomd.open", c.value), Ev("adomd.close", c.value)>>, None)

----------------------------------------------------------------------------
(* The calls a client makes *)

Schemas == {"dbo"}
Tables == {"t1", "t2"}
UserQueries == {[sql |-> "SELECT 1"], [sql |-> "SELECT * FROM t1"]}
Timeouts == {30, 5}
Limits == {-1, 0, 10, 5000} \cup ((SampleCap - MaxOver)..(SampleCap + MaxOver))

NoCall == [fn |-> "idle"]
NoOutcome == [kind |-> "none", exc |-> NoExc, value |-> <<>>, conn |-> NoConn]

\* the handles open after a list of steps
RECURSIVE OpenAfter(_, _)
OpenAfter(open, ev) ==
    IF ev = <<>> THEN open
    ELSE OpenAfter(IF Head(ev).op = "connect" THEN open \cup {Head(ev).arg}
                   ELSE IF Head(ev).op = "close" THEN open \ {Head(ev).arg}
                   ELSE open,
                   Tail(ev))

Idle == call.fn = "idle"

\* a call c ran and ended with r
Finish(c, r) ==
    /\ call' = c
    /\ events' = r.events
    /\ outcome' = [kind |-> r.kind, exc |-> r.exc, value |-> r.value, conn |-> r.conn]
    /\ openConns' = OpenAfter(openConns, r.events)
    /\ UNCHANGED env

Init ==
    /\ env \in [EnvVars -> EnvValues]
    /\ call = NoCall
    /\ events = <<>>
    /\ outcome = NoOutcome
    /\ openConns = {}

Call_validate_config ==
    /\ Idle
    /\ Finish([fn |-> "validate_config"], validate_config(env))

Call_lakehouse_sql_query ==
    /\ Idle
    /\ \E query \in UserQueries, timeout \in Timeouts, d \in Drivers :
           Finish([fn |-> "lakehouse_sql_query", query |-> query, timeout |-> timeout],
                  lakehouse_sql_query(env, query, timeout, d))

Call_lakehouse_describe_table ==
    /\ Idle
    /\ \E schema_name \in Schemas, table_name \in Tables, d \in Drivers :
           Finish([fn |-> "lakehouse_describe_table", schema |-> schema_name, table |-> table_name],
                  lakehouse_describe_table(env, schema_name, table_name, d))

Call_lakehouse_sample_table ==
    /\ Idle
    /\ \E schema_name \in Schemas, table_name \in Tables, limit \in Limits, d \in Drivers :
           Finish([fn |-> "lakehouse_sample_table", schema |-> schema_name,
                   table |-> table_name, limit |-> limit],
                  lakehouse_sample_table(env, schema_name, table_name, limit, d))

\* the driver answers only on a connection: with none, one answer stands
\* for all
DriverAnswers(e, rowsets) ==
    IF _get_connection(e).kind = "return" /\ _get_connection(e).conn # NoConn
    THEN [fail : DriverFailures, close : {"ok", "err"}, rows : rowsets]
    ELSE {[fail |-> "none", close |-> "ok", rows |-> <<>>]}

Call_lakehouse_list_tables ==
    /\ Idle
    /\ \E d \in DriverAnswers(env, ResultSets) :
           Finish([fn |-> "lakehouse_list_tables"], lakehouse_list_tables(env, d))

Call_lakehouse_list_tables_v2 ==
    /\ Idle
    /\ \E d \in DriverAnswers(env, V2ResultSets) :
           Finish([fn |-> "lakehouse_list_tables_v2"], lakehouse_list_tables_v2(env, d))

Call_lakehouse_find_relationships ==
    /\ Idle
    /\ \E d \in DriverAnswers(env, ResultSets) :
           Finish([fn |-> "lakehouse_find_relationships"], lakehouse_find_relationships(env, d))

Call_lakehouse_find_primary_keys ==
    /\ Idle
    /\ \E d \in DriverAnswers(env, ResultSets) :
           Finish([fn |-> "lakehouse_find_primary_keys"], lakehouse_find_primary_keys(env, d))

Call_lakehouse_get_schema_stats ==
    /\ Idle
    /\ \E d \in DriverAnswers(env, StatsResultSets) :
           Finish([fn |-> "lakehouse_get_schema_stats"], lakehouse_get_schema_stats(env, d))

Call_semantic_model_query ==
    /\ Idle
    /\ \E query \in {"EVALUATE t1"}, w \in AdomdAnswers :
           Finish([fn |-> "semantic_model_query", query |-> query],
                  semantic_model_query(env, query, w))

\* the caller has the result; the server waits for the next call
Respond ==
    /\ ~Idle
    /\ call' = NoCall
    /\ events' = <<>>
    /\ outcome' = NoOutcome
    /\ UNCHANGED <<env, openConns>>

Next ==
    \/ Call_validate_config
    \/ Call_lakehouse_sql_query
    \/ Call_lakehouse_describe_table
    \/ Call_lakehouse_sample_table
    \/ Call_lakehouse_list_tables
    \/ Call_lakehouse_list_tables_v2
    \/ Call_lakehouse_find_relationships
    \/ Call_lakehouse_find_primary_keys
    \/ Call_lakehouse_get_schema_stats
    \/ Call_semantic_model_query
    \/ Respond

Spec == Init /\ [][Next]_vars

----------------------------------------------------------------------------
(* Properties of the SQL path, checked under Spec *)

SqlPathFunctions == {"lakehouse_sql_query", "lakehouse_describe_table", "lakehouse_sample_table"}

\* the settings validate_config reads are all there
ConfigComplete ==
    /\ Truthy(env[SQL_ENDPOINT])
    /\ Truthy(env[LAKEHOUSE_NAME])
    /\ Truthy(env[SEMANTIC_MODEL_CONNECTION])

HasRaised == CountOp(events, "raised") > 0
FirstRaised == events[FirstIndex(events, "raised")].arg

C2_FailureSurfacesUnchanged ==
    call.fn = "lakehouse_sql_query" =>
        /\ HasRaised => (outcome.kind = "raise" /\ outcome.exc = FirstRaised)
        /\ CountOp(events, "raised") <= 1
        /\ Cardinality({i \in 1..Len(events) :
                            events[i].op = "execute" /\ events[i].arg = call.query}) <= 1
        /\ outcome.kind = "raise" => outcome.value = <<>>
        /\ outcome.kind = "return" => ~HasRaised

\* a call of lakehouse_sql_query failed and its exception reached the caller
C2_Witness ==
    /\ call.fn = "lakehouse_sql_query"
    /\ HasRaised
    /\ outcome.kind = "raise"
    /\ outcome.exc.type = "AttributeError"

\* C3: every SQL-path call that raises has written an error log entry
\* before the exception reaches the caller.
C3_FailureLoggedFirst ==
    (call.fn \in SqlPathFunctions /\ outcome.kind = "raise")
        => CountOp(events, "log.error") >= 1

\* C4: with the configuration complete, lakehouse_sql_query gets a handle
\* that is a connection (not None) before it sets the timeout and executes.
C4_ConnectionObtained ==
    (call.fn = "lakehouse_sql_query" /\ ConfigComplete) =>
        /\ CountOp(events, "_get_connection.return") = 1
        /\ events[FirstIndex(events, "_get_connection.return")].arg # NoConn
        /\ CountOp(events, "connect") = 1

\* C5: every SQL-path call made with the configuration complete opens one
\* connection of its own and closes it; never more than one is open, and
\* none stays open after the call.
C5_OwnConnectionPerCall ==
    /\ Cardinality(openConns) <= 1
    /\ ~Idle => openConns = {}
    /\ (call.fn \in SqlPathFunctions /\ ConfigComplete) =>
           /\ CountOp(events, "connect") = 1
           /\ CountOp(events, "close") = 1

\* the names of environment variables an error message holds
NamedIn(msg) == {msg[i] : i \in 1..Len(msg)} \cap EnvVars

\* C6 as stated: validation requires all four settings, raising one error
\* naming every missing one and nothing when none is missing.
C6_AllFourRequired ==
    call.fn = "validate_config" =>
        LET missing == {v \in EnvVars : env[v] = None \/ env[v] = ""}
        IN  /\ missing = {} => outcome.kind = "return"
            /\ missing # {} => (outcome.kind = "raise" /\ NamedIn(outcome.exc.msg) = missing)

\* C6 amended: validate_config requires the three settings endpoint,
\* database name and semantic-model connection string (not the workspace
\* id): for every subset of them missing or empty it raises one error
\* naming exactly that subset, in the order of its tests, and it raises
\* nothing when none of the three is missing.
C6_ThreeRequired ==
    call.fn = "validate_config" =>
        LET three   == {SQL_ENDPOINT, LAKEHOUSE_NAME, SEMANTIC_MODEL_CONNECTION}
            missing == {v \in three : env[v] = None \/ env[v] = ""}
            msg     == outcome.exc.msg
        IN  /\ missing = {} => (outcome.kind = "return" /\ ~HasRaised)
            /\ missing # {} =>
                   /\ outcome.kind = "raise"
                   /\ outcome.exc.type = "RuntimeError"
                   /\ CountOp(events, "raised") = 1
                   /\ NamedIn(msg) = missing
                   /\ \A v \in missing : Cardinality({i \in 1..Len(msg) : msg[i] = v}) = 1
                   /\ \A i, j \in 1..Len(msg) :
                          (i < j /\ msg[i] = LAKEHOUSE_NAME) => msg[j] # SQL_ENDPOINT
                   /\ \A i, j \in 1..Len(msg) :
                          (i < j /\ msg[i] = SEMANTIC_MODEL_CONNECTION) => msg[j] \notin {SQL_ENDPOINT, LAKEHOUSE_NAME}

\* validate_config ran with two or more settings missing and raised
C6_Witness ==
    /\ call.fn = "validate_config"
    /\ outcome.kind = "raise"
    /\ Cardinality(NamedIn(outcome.exc.msg)) >= 2
    /\ Truthy(env[WORKSPACE_ID])

\* the integer a list of decimal characters writes
RECURSIVE DecimalValue(_)
DecimalValue(cs) ==
    IF cs = <<>> THEN 0
    ELSE 10 * DecimalValue(SubSeq(cs, 1, Len(cs) - 1))
         + (CHOOSE k \in 0..9 : Digit(k) = cs[Len(cs)])

SignedValue(cs) == IF Head(cs) = "-" THEN 0 - DecimalValue(Tail(cs)) ELSE DecimalValue(cs)

\* the statement lakehouse_sql_query was called with
StatementRun == events[FirstIndex(events, "lakehouse_sql_query")].arg

\* C10: the row count lakehouse_sample_table writes into its statement is
\* min(limit, 1000): never above 1000, and the limit itself when that is
\* 1000 or less.
C10_SampleClamped ==
    call.fn = "lakehouse_sample_table" =>
        /\ CountOp(events, "lakehouse_sql_query") = 1
        /\ SignedValue(StatementRun.top) <= 1000
        /\ call.limit > 1000 => SignedValue(StatementRun.top) = 1000
        /\ call.limit <= 1000 => SignedValue(StatementRun.top) = call.limit

\* a sample was asked for with a limit above the ceiling and 1000 was written
C10_Witness ==
    /\ call.fn = "lakehouse_sample_table"
    /\ call.limit > 1000
    /\ StatementRun.top = <<"1", "0", "0", "0">>

\* the schema and introspection tools
IntrospectionFunctions ==
    {"lakehouse_list_tables", "lakehouse_list_tables_v2", "lakehouse_describe_table",
     "lakehouse_sample_table", "lakehouse_find_relationships",
     "lakehouse_find_primary_keys", "lakehouse_get_schema_stats"}

\* C13: every schema/introspection function runs its statement through
\* lakehouse_sql_query, and whenever it executes a statement the first one
\* executed on the connection is SET LOCK_TIMEOUT, ahead of its own.
C13_ThroughQueryExecutor ==
    call.fn \in IntrospectionFunctions =>
        /\ CountOp(events, "lakehouse_sql_query") = 1
        /\ CountOp(events, "execute") > 0 =>
               /\ CountOp(events, "execute") >= 2
               /\ events[FirstIndex(events, "execute")].arg = "SET LOCK_TIMEOUT 30000;"

\* are all members of a list tuples of n columns
TuplesOf(v, n) == \A i \in 1..Len(v) : Len(v[i]) = n

\* C14: a query-returning function that completes without raising returns a
\* list of tuples of the arity its contract fixes: lakehouse_list_tables 2,
\* lakehouse_list_tables_v2 3, lakehouse_get_schema_stats 3 with integer
\* counts, get_lakehouse_semantic_relationships 6, and semantic_model_query
\* a list of tuples, never None.
C14_DocumentedArity ==
    outcome.kind = "return" =>
        /\ call.fn = "semantic_model_query" => outcome.value # None
        /\ call.fn = "lakehouse_list_tables" => TuplesOf(outcome.value, 2)
        /\ call.fn = "lakehouse_list_tables_v2" => TuplesOf(outcome.value, 3)
        /\ call.fn = "lakehouse_get_schema_stats" =>
               /\ TuplesOf(outcome.value, 3)
               /\ \A i \in 1..Len(outcome.value) :
                      outcome.value[i][2] \in Int /\ outcome.value[i][3] \in Int
        /\ call.fn = "get_lakehouse_semantic_relationships" => TuplesOf(outcome.value, 6)

\* the calls that ask _get_connection for a connection
ConnectingFunctions == IntrospectionFunctions \cup {"lakehouse_sql_query"}

\* C16: with a variable that validate_config checks missing, every SQL-path
\* call raises the aggregated configuration error, naming every missing
\* variable, before any token is requested and before any connection is
\* opened or used: nothing is left to close.
C16_ConfigErrorBeforeConnecting ==
    (call.fn \in ConnectingFunctions /\ ~ConfigComplete) =>
        /\ outcome.kind = "raise"
        /\ outcome.exc.type = "RuntimeError"
        /\ outcome.exc.at = "validate_config"
        /\ NamedIn(outcome.exc.msg) = {v \in EnvVars \ {WORKSPACE_ID} : ~Truthy(env[v])}
        /\ CountOp(events, "raised") = 1
        /\ \A op \in {"get_token", "connect", "_get_connection.return", "set_timeout",
                      "cursor", "execute", "close"} : CountOp(events, op) = 0
        /\ openConns = {}

\* lakehouse_describe_table was called with two settings missing
C16_Witness ==
    /\ call.fn = "lakehouse_describe_table"
    /\ ~Truthy(env[SQL_ENDPOINT])
    /\ ~Truthy(env[SEMANTIC_MODEL_CONNECTION])
    /\ Truthy(env[LAKEHOUSE_NAME])
    /\ outcome.kind = "raise"
    /\ outcome.exc.at = "validate_config"

----------------------------------------------------------------------------
(* The result coercions on their own: every result set the two queries   *)
(* can hand to the list comprehensions of lines 125 and 498              *)

InitCoerce ==
    /\ env = [v \in EnvVars |-> "set"]
    /\ call = NoCall
    /\ events = <<>>
    /\ outcome = NoOutcome
    /\ openConns = {}

Apply_CoerceRowCounts ==
    /\ Idle
    /\ \E results \in V2ResultSets :
           Finish([fn |-> "CoerceRowCounts", results |-> results],
                  CoerceRowCounts(<<>>, results))

Apply_CoerceStats ==
    /\ Idle
    /\ \E results \in StatsResultSets :
           Finish([fn |-> "CoerceStats", results |-> results],
                  CoerceStats(<<>>, results))

NextCoerce ==
    \/ Apply_CoerceRowCounts
    \/ Apply_CoerceStats
    \/ Respond

SpecCoerce == InitCoerce /\ [][NextCoerce]_vars

\* the integer Python's int() gives a driver value, 0 where it gives none
IntegerOf(v) ==
    CASE v.t = "int" -> v.n
      [] v.t = "float" -> CHOOSE k \in -3..3 :
                              /\ (v.n >= 0 => 10 * k <= v.n /\ v.n < 10 * k + 10)
                              /\ (v.n < 0 => 10 * k >= v.n /\ v.n > 10 * k - 10)
      [] v.t = "str" /\ IsIntLiteral(v.s) -> SignedValue(v.s)
      [] OTHER -> 0

----------------------------------------------------------------------------
(* Semantic model client: semantic_model_service.py *)

\* str.lower() on the characters the model uses
LowerChar(c) == IF c = "S" THEN "s" ELSE IF c = "A" THEN "a" ELSE IF c = "X" THEN "x" ELSE c
Lower(str) == [i \in 1..Len(str) |-> LowerChar(str[i])]

\* Python's `needle in hay' on strings
Contains(hay, needle) ==
    \E off \in 0..Len(hay) :
        /\ off + Len(needle) <= Len(hay)
        /\ SubSeq(hay, off + 1, off + Len(needle)) = needle

\* dataset names a workspace may hold, as lists of characters
DatasetNames ==
    {<<>>, <<"S", "a">>, <<"s", "A", "x">>, <<"x">>, <<"x", "S", "a">>, <<"a", "s">>}

LakehouseNames == {<<"s", "a">>, <<"S", "A">>, <<"a", "x">>, <<"x", "x">>, <<>>}

\* the dataset at place i of a listing: its id tells its place
DatasetAt(names, i) == [name |-> names[i], id |-> <<"d", "s">> \o NatStr(i)]

Listings ==
    UNION {{[i \in 1..n |-> DatasetAt(names, i)] : names \in [1..n -> DatasetNames]}
               : n \in 0..MaxDatasets}

\* what the identity library does when asked for a token
TokenAnswers == {"ok", "err"}

\* what the dataset listing GET answers: a network error, a status other
\* than 200, or 200 with a JSON body holding "value" or not
GetAnswers ==
    {[net |-> "err", status |-> 0, json |-> "-", value |-> <<>>]}
    \cup {[net |-> "ok", status |-> 500, json |-> "-", value |-> <<>>]}
    \cup {[net |-> "ok", status |-> 200, json |-> "invalid", value |-> <<>>]}
    \cup {[net |-> "ok", status |-> 200, json |-> "no_value", value |-> <<>>]}
    \cup [net : {"ok"}, status : {200}, json : {"value"}, value : Listings]

TokenError == Exc("ClientAuthenticationError", "_get_fabric_token", <<>>)
NetworkError(at) == Exc("requests.RequestException", at, <<>>)
JsonError(at) == Exc("ValueError", at, <<>>)

\* _get_fabric_token, lines 13-17
_get_fabric_token(tok) ==
    IF tok = "err"
    THEN Raise(<<Ev("get_token", ""), Raised(TokenError)>>, TokenError)
    ELSE Return(<<Ev("get_token", "")>>, "token")

\* the loop keeping the last dataset that matches
RECURSIVE LastMatching(_, _)
LastMatching(datasets, lakehouse_name) ==
    IF datasets = <<>> THEN None
    ELSE IF Contains(Lower(datasets[Len(datasets)].name), Lower(lakehouse_name))
         THEN datasets[Len(datasets)].id
         ELSE LastMatching(SubSeq(datasets, 1, Len(datasets) - 1), lakehouse_name)

\* the loop of lines 48-52
RECURSIVE FirstMatching(_, _)
FirstMatching(datasets, lakehouse_name) ==
    IF datasets = <<>> THEN None
    ELSE IF Contains(Lower(Head(datasets).name), Lower(lakehouse_name))
         THEN Head(datasets).id
         ELSE FirstMatching(Tail(datasets), lakehouse_name)

find_semantic_model_for_lakehouse(workspace_id, lakehouse_name, tok, get) ==
    LET t   == _get_fabric_token(tok)
        ev1 == t.events \o <<Ev("GET.datasets", workspace_id)>>
        ev2 == ev1 \o <<Ev("response.datasets", get)>>
    IN  IF t.kind = "raise" THEN t
        ELSE IF get.net = "err"
        THEN Raise(ev1 \o <<Raised(NetworkError("GET.datasets"))>>, NetworkError("GET.datasets"))
        ELSE IF get.status # 200
        THEN Raise(ev2 \o <<Raised(Exc("Exception", "GET.datasets", <<"Failed to get datasets">>))>>,
                   Exc("Exception", "GET.datasets", <<"Failed to get datasets">>))
        ELSE IF get.json = "invalid"
        THEN Raise(ev2 \o <<Raised(JsonError("response.json"))>>, JsonError("response.json"))
        ELSE Return(ev2, FirstMatching(IF get.json = "no_value" THEN <<>> ELSE get.value,
                                       lakehouse_name))

----------------------------------------------------------------------------
(* Relationship queries: semantic_model_service.py lines 55-165 *)

\* a row of a result table: a JSON object with the columns the primary query
\* names, one with the columns of the internal-schema table, an empty
\* object, or a JSON value that is no object
RelRowValues ==
    { [isdict |-> TRUE,
       items |-> [Name |-> "r1", FromTable |-> "orders", FromColumn |-> "cust_id",
                  ToTable |-> "customers", ToColumn |-> "id",
                  CrossFilteringBehavior |-> "OneDirection", IsActive |-> FALSE]],
      [isdict |-> TRUE,
       items |-> [Name |-> "r2", FromTable |-> "lines", FromColumn |-> "order_id",
                  ToTable |-> "orders", ToColumn |-> "id",
                  CrossFilterDirection |-> "Both", IsActive |-> TRUE]],
      [isdict |-> TRUE, items |-> <<>>],
      [isdict |-> FALSE, items |-> <<>>] }

RelRowLists == UNION {[1..n -> RelRowValues] : n \in 0..MaxRelRows}

\* the JSON bodies a 200 answer may carry
\*   invalid:      not JSON, response.json() raises
\*   no_results:   no "results" key, or an empty "results" list
\*   no_tables:    results[0] has no "tables" key
\*   empty_tables: results[0]["tables"] is the empty list
\*   rows:         results[0]["tables"][0]["rows"] is the list `rows'
PostAnswers ==
    {[net |-> "err", status |-> 0, json |-> "-", rows |-> <<>>]}
    \cup {[net |-> "ok", status |-> 500, json |-> "-", rows |-> <<>>]}
    \cup [net : {"ok"}, status : {200},
          json : {"invalid", "no_results", "no_tables", "empty_tables"}, rows : {<<>>}]
    \cup [net : {"ok"}, status : {200}, json : {"rows"}, rows : RelRowLists]

\* dict.get(key, default)
Get(items, key, default) == IF key \in DOMAIN items THEN items[key] ELSE default

\* the dictionary built from one row (lines 100-108 and 151-159)
Relationship(items, cross_key) ==
    [name |-> Get(items, "Name", ""),
     from_table |-> Get(items, "FromTable", ""),
     from_column |-> Get(items, "FromColumn", ""),
     to_table |-> Get(items, "ToTable", ""),
     to_column |-> Get(items, "ToColumn", ""),
     cross_filtering |-> Get(items, cross_key, ""),
     is_active |-> Get(items, "IsActive", TRUE)]

\* parsing of a 200 answer (lines 93-110 and 145-161); `at' names the request
ParseRelationships(ev, post, cross_key, at) ==
    IF post.json = "invalid"
    THEN Raise(ev \o <<Raised(JsonError(at))>>, JsonError(at))
    ELSE IF post.json = "no_results"
    THEN Return(ev, <<>>)
    ELSE IF post.json = "no_tables"
    THEN Return(ev, <<>>)
    ELSE IF post.json = "empty_tables"
    THEN Raise(ev \o <<Raised(Exc("IndexError", at, <<>>))>>, Exc("IndexError", at, <<>>))
    ELSE IF \E i \in 1..Len(post.rows) : ~post.rows[i].isdict
    THEN Raise(ev \o <<Raised(Exc("AttributeError", at, <<>>))>>, Exc("AttributeError", at, <<>>))
    ELSE Return(ev, [i \in 1..Len(post.rows) |-> Relationship(post.rows[i].items, cross_key)])

\* an except clause that prints and hands back the empty list
PrintAndEmpty(r, text) ==
    IF r.kind = "raise" THEN Return(r.events \o <<Ev("print", text)>>, <<>>) ELSE r

\* _get_relationships_via_dmv, lines 117-165
_get_relationships_via_dmv(workspace_id, dataset_id, token, post) ==
    LET ev1 == <<Ev("POST.dmv", dataset_id)>>
        ev2 == ev1 \o <<Ev("response.dmv", post)>>
        r   == IF post.net = "err"
               THEN Raise(ev1 \o <<Raised(NetworkError("POST.dmv"))>>, NetworkError("POST.dmv"))
               ELSE IF post.status # 200
               THEN Return(ev2, <<>>)
               ELSE ParseRelationships(ev2, post, "CrossFilterDirection", "POST.dmv")
        f   == PrintAndEmpty(r, "DMV query failed")
    IN  [f EXCEPT !.events = f.events \o <<Ev("_get_relationships_via_dmv.return", f.value)>>]

\* get_semantic_model_relationships giving up on a status other than 200
get_semantic_model_relationships_no_fallback(workspace_id, dataset_id, tok, primary, fallback) ==
    LET t   == _get_fabric_token(tok)
        ev1 == t.events \o <<Ev("POST.primary", dataset_id)>>
        ev2 == ev1 \o <<Ev("response.primary", primary)>>
    IN  IF t.kind = "raise" THEN t
        ELSE PrintAndEmpty(
                 IF primary.net = "err"
                 THEN Raise(ev1 \o <<Raised(NetworkError("POST.primary"))>>,
                            NetworkError("POST.primary"))
                 ELSE IF primary.status # 200
                 THEN Return(ev2, <<>>)
                 ELSE ParseRelationships(ev2, primary, "CrossFilteringBehavior", "POST.primary"),
                 "Error querying relationships")

\* get_semantic_model_relationships without its try statement
get_semantic_model_relationships_no_try(workspace_id, dataset_id, tok, primary, fallback) ==
    LET t   == _get_fabric_token(tok)
        ev1 == t.events \o <<Ev("POST.primary", dataset_id)>>
        ev2 == ev1 \o <<Ev("response.primary", primary)>>
    IN  IF t.kind = "raise" THEN t
        ELSE IF primary.net = "err"
        THEN Raise(ev1 \o <<Raised(NetworkError("POST.primary"))>>, NetworkError("POST.primary"))
        ELSE IF primary.status # 200
        THEN LET f == _get_relationships_via_dmv(workspace_id, dataset_id, t.value, fallback)
             IN  [f EXCEPT !.events = ev2 \o f.events]
        ELSE ParseRelationships(ev2, primary, "CrossFilteringBehavior", "POST.primary")

\* get_semantic_model_relationships, lines 55-114
get_semantic_model_relationships(workspace_id, dataset_id, tok, primary, fallback) ==
    LET t   == _get_fabric_token(tok)
        ev1 == t.events \o <<Ev("POST.primary", dataset_id)>>
        ev2 == ev1 \o <<Ev("response.primary", primary)>>
    IN  IF t.kind = "raise" THEN t
        ELSE PrintAndEmpty(
                 IF primary.net = "err"
                 THEN Raise(ev1 \o <<Raised(NetworkError("POST.primary"))>>,
                            NetworkError("POST.primary"))
                 ELSE IF primary.status # 200
                 THEN LET f == _get_relationships_via_dmv(workspace_id, dataset_id, t.value, fallback)
                      IN  [f EXCEPT !.events = ev2 \o f.events]
                 ELSE ParseRelationships(ev2, primary, "CrossFilteringBehavior", "POST.primary"),
                 "Error querying relationships")

----------------------------------------------------------------------------
(* The lakehouse's semantic model: semantic_model_service.py lines 168-240 *)

\* the characters of the configured lakehouse name and workspace id
LakehouseNameChars(v) == IF v = "set" THEN <<"s", "a">> ELSE <<>>
WorkspaceIdOf(v) == IF v = "set" THEN "ws1" ELSE v

\* what the outside world answers during one call: the two token requests
\* (lines 25 and 66), the listing and the two relationship queries
RestAnswers ==
    [tok1 : TokenAnswers, get : GetAnswers, tok2 : TokenAnswers,
     primary : PostAnswers, fallback : PostAnswers]

\* the tuples of lines 196-205
RelationshipTuples(rels) ==
    [i \in 1..Len(rels) |->
        <<rels[i].from_table, rels[i].from_column, rels[i].to_table,
          rels[i].to_column, rels[i].name, rels[i].cross_filtering>>]

\* get_lakehouse_semantic_relationships asking for relationships whether or
\* not a dataset was found
get_lakehouse_semantic_relationships_unchecked(e, w) ==
    LET workspace_id   == WorkspaceIdOf(e[WORKSPACE_ID])
        lakehouse_name == LakehouseNameChars(e[LAKEHOUSE_NAME])
        f == find_semantic_model_for_lakehouse(workspace_id, lakehouse_name, w.tok1, w.get)
        g == get_semantic_model_relationships(workspace_id, f.value, w.tok2, w.primary, w.fallback)
    IN  IF f.kind = "raise" THEN f
        ELSE IF g.kind = "raise" THEN Raise(f.events \o g.events, g.exc)
        ELSE Return(f.events \o g.events, RelationshipTuples(g.value))

\* get_lakehouse_semantic_relationships, lines 168-207
get_lakehouse_semantic_relationships(e, w) ==
    LET workspace_id   == WorkspaceIdOf(e[WORKSPACE_ID])
        lakehouse_name == LakehouseNameChars(e[LAKEHOUSE_NAME])
        f == find_semantic_model_for_lakehouse(workspace_id, lakehouse_name, w.tok1, w.get)
        g == get_semantic_model_relationships(workspace_id, f.value, w.tok2, w.primary, w.fallback)
        noWs == Exc("ValueError", "get_lakehouse_semantic_relationships", <<WORKSPACE_ID>>)
        noLh == Exc("ValueError", "get_lakehouse_semantic_relationships", <<LAKEHOUSE_NAME>>)
    IN  IF ~Truthy(e[WORKSPACE_ID]) THEN Raise(<<Raised(noWs)>>, noWs)
        ELSE IF ~Truthy(e[LAKEHOUSE_NAME]) THEN Raise(<<Raised(noLh)>>, noLh)
        ELSE IF f.kind = "raise" THEN f
        ELSE IF ~Truthy(f.value) THEN Return(f.events, <<>>)
        ELSE IF g.kind = "raise" THEN Raise(f.events \o g.events, g.exc)
        ELSE Return(f.events \o g.events, RelationshipTuples(g.value))

\* get_semantic_model_info, lines 210-240
get_semantic_model_info(e, w) ==
    LET workspace_id   == WorkspaceIdOf(e[WORKSPACE_ID])
        lakehouse_name == LakehouseNameChars(e[LAKEHOUSE_NAME])
        f == find_semantic_model_for_lakehouse(workspace_id, lakehouse_name, w.tok1, w.get)
        g == get_semantic_model_relationships(workspace_id, f.value, w.tok2, w.primary, w.fallback)
        unset == Exc("ValueError", "get_semantic_model_info", <<WORKSPACE_ID, LAKEHOUSE_NAME>>)
    IN  IF ~Truthy(e[WORKSPACE_ID]) \/ ~Truthy(e[LAKEHOUSE_NAME])
        THEN Raise(<<Raised(unset)>>, unset)
        ELSE IF f.kind = "raise" THEN f
        ELSE IF ~Truthy(f.value)
        THEN Return(f.events, [found |-> FALSE, message |-> "No semantic model found for lakehouse"])
        ELSE IF g.kind = "raise" THEN Raise(f.events \o g.events, g.exc)
        ELSE Return(f.events \o g.events,
                    [found |-> TRUE, workspace_id |-> workspace_id, dataset_id |-> f.value,
                     lakehouse_name |-> lakehouse_name, relationship_count |-> Len(g.value),
                     relationships |-> g.value])

----------------------------------------------------------------------------
(* The calls a client makes of the semantic model client *)

WorkspaceIds == {"ws1"}
DatasetIds == {"ds1"}

\* the semantic model client reads FABRIC_WORKSPACE_ID and
\* FABRIC_LAKEHOUSE_NAME only; the other two settings are taken as set
InitRest ==
    /\ env \in {e \in [EnvVars -> EnvValues] :
                    e[SQL_ENDPOINT] = "set" /\ e[SEMANTIC_MODEL_CONNECTION] = "set"}
    /\ call = NoCall
    /\ events = <<>>
    /\ outcome = NoOutcome
    /\ openConns = {}

Call_find_semantic_model_for_lakehouse ==
    /\ Idle
    /\ \E workspace_id \in WorkspaceIds, lakehouse_name \in LakehouseNames,
          tok \in TokenAnswers, get \in GetAnswers :
           Finish([fn |-> "find_semantic_model_for_lakehouse",
                   workspace_id |-> workspace_id, lakehouse_name |-> lakehouse_name],
                  find_semantic_model_for_lakehouse(workspace_id, lakehouse_name, tok, get))

Call_get_semantic_model_relationships ==
    /\ Idle
    /\ \E workspace_id \in WorkspaceIds, dataset_id \in DatasetIds,
          tok \in TokenAnswers, primary \in PostAnswers, fallback \in PostAnswers :
           Finish([fn |-> "get_semantic_model_relationships",
                   workspace_id |-> workspace_id, dataset_id |-> dataset_id],
                  get_semantic_model_relationships(workspace_id, dataset_id, tok, primary, fallback))

\* answers nobody reads
QuietGet == [net |-> "ok", status |-> 200, json |-> "no_value", value |-> <<>>]
QuietPost == [net |-> "ok", status |-> 200, json |-> "no_results", rows |-> <<>>]

\* the answers one call can come to read: the listing only after the first
\* token, the second token and the primary query only when a dataset of the
\* listing matched, the fallback only after a primary answer other than 200
AnswersRead(e) ==
    LET configured == Truthy(e[WORKSPACE_ID]) /\ Truthy(e[LAKEHOUSE_NAME])
        found(w)   == LET f == find_semantic_model_for_lakehouse(
                                   WorkspaceIdOf(e[WORKSPACE_ID]),
                                   LakehouseNameChars(e[LAKEHOUSE_NAME]), w.tok1, w.get)
                      IN  f.kind = "return" /\ Truthy(f.value)
        first  == {w \in [tok1 : TokenAnswers, get : GetAnswers, tok2 : {"ok"},
                          primary : {QuietPost}, fallback : {QuietPost}] :
                       /\ (~configured => w.tok1 = "ok")
                       /\ (~configured \/ w.tok1 = "err") => w.get = QuietGet}
        second(w) == IF ~(configured /\ found(w)) THEN {w}
                     ELSE {[w EXCEPT !.tok2 = "err"]}
                          \cup {[w EXCEPT !.primary = p, !.fallback = q] :
                                    p \in {x \in PostAnswers : x.net = "err" \/ x.status = 200},
                                    q \in {QuietPost}}
                          \cup {[w EXCEPT !.primary = p, !.fallback = q] :
                                    p \in {x \in PostAnswers : x.net = "ok" /\ x.status # 200},
                                    q \in PostAnswers}
    IN  UNION {second(w) : w \in first}

Call_get_lakehouse_semantic_relationships ==
    /\ Idle
    /\ \E w \in AnswersRead(env) :
           Finish([fn |-> "get_lakehouse_semantic_relationships"],
                  get_lakehouse_semantic_relationships(env, w))

Call_get_semantic_model_info ==
    /\ Idle
    /\ \E w \in AnswersRead(env) :
           Finish([fn |-> "get_semantic_model_info"], get_semantic_model_info(env, w))

NextRest ==
    \/ Call_find_semantic_model_for_lakehouse
    \/ Call_get_semantic_model_relationships
    \/ Call_get_lakehouse_semantic_relationships
    \/ Call_get_semantic_model_info
    \/ Respond

SpecRest == InitRest /\ [][NextRest]_vars

----------------------------------------------------------------------------
(* Properties of the semantic model client, checked under SpecRest *)

\* two characters are the same letter, case apart
SameLetter(a, b) ==
    \/ a = b
    \/ {a, b} \in {{"s", "S"}, {"a", "A"}, {"x", "X"}}

\* needle occurs in hay as a substring, case apart
OccursIgnoringCase(needle, hay) ==
    \E off \in 0..(Len(hay) - Len(needle)) :
        \A i \in 1..Len(needle) : SameLetter(hay[off + i], needle[i])

AnswerOf(op) == events[FirstIndex(events, op)].arg

\* C7: find_semantic_model_for_lakehouse hands back the id of the first
\* dataset of the listing whose name holds the lakehouse name as a
\* substring, case apart, and None (no exception) when no name does.
C7_FirstMatchWins ==
    (/\ call.fn = "find_semantic_model_for_lakehouse"
     /\ CountOp(events, "response.datasets") = 1
     /\ AnswerOf("response.datasets").json = "value") =>
        LET listing == AnswerOf("response.datasets").value
            hits    == {i \in 1..Len(listing) :
                            OccursIgnoringCase(call.lakehouse_name, listing[i].name)}
        IN  /\ outcome.kind = "return"
            /\ hits = {} => outcome.value = None
            /\ hits # {} =>
                   \E k \in hits :
                       /\ \A j \in hits : k <= j
                       /\ outcome.value = listing[k].id

\* two datasets of the listing match and the first one's id came back
C7_Witness ==
    /\ call.fn = "find_semantic_model_for_lakehouse"
    /\ CountOp(events, "response.datasets") = 1
    /\ AnswerOf("response.datasets").json = "value"
    /\ LET listing == AnswerOf("response.datasets").value
       IN  /\ Len(listing) = 2
           /\ listing[1].name # listing[2].name
           /\ call.lakehouse_name # <<>>
           /\ \A i \in 1..2 : OccursIgnoringCase(call.lakehouse_name, listing[i].name)
           /\ outcome.value = listing[1].id

\* C8: when the primary POST answers a status other than 200, the fallback
\* POST is sent before the function returns and the function's result is
\* the fallback's; when it answers 200 the fallback is never sent.
C8_FallbackOnNon200 ==
    (call.fn = "get_semantic_model_relationships" /\ CountOp(events, "response.primary") = 1) =>
        /\ AnswerOf("response.primary").status # 200 =>
               /\ CountOp(events, "POST.dmv") = 1
               /\ FirstIndex(events, "POST.dmv") > FirstIndex(events, "response.primary")
               /\ CountOp(events, "_get_relationships_via_dmv.return") = 1
               /\ outcome.kind = "return"
               /\ outcome.value = AnswerOf("_get_relationships_via_dmv.return")
        /\ AnswerOf("response.primary").status = 200 =>
               CountOp(events, "POST.dmv") = 0

\* the primary answered 500, the fallback was sent and its rows came back
C8_Witness ==
    /\ call.fn = "get_semantic_model_relationships"
    /\ CountOp(events, "response.primary") = 1
    /\ AnswerOf("response.primary").status = 500
    /\ CountOp(events, "POST.dmv") = 1
    /\ outcome.kind = "return"
    /\ Len(outcome.value) >= 1
    /\ outcome.value[1].cross_filtering = "Both"

\* C9 as stated: whatever network or parsing error happens during
\* get_semantic_model_relationships is logged and the call hands back the
\* empty list; none is raised.
C9_EveryErrorSwallowed ==
    (call.fn = "get_semantic_model_relationships" /\ HasRaised) =>
        /\ outcome.kind = "return"
        /\ outcome.value = <<>>
        /\ CountOp(events, "print") >= 1

\* C9 amended: an error raised by the relationship POST or while parsing
\* its answer, in get_semantic_model_relationships or in its fallback, is
\* printed and the call hands back the empty list; the only exception that
\* reaches the caller is one raised while the token is acquired, before
\* the request.
C9_RequestErrorsSwallowed ==
    call.fn = "get_semantic_model_relationships" =>
        /\ (HasRaised /\ FirstRaised.at # "_get_fabric_token") =>
               /\ outcome.kind = "return"
               /\ outcome.value = <<>>
               /\ \E i \in 1..Len(events) :
                      events[i].op = "print" /\ i > FirstIndex(events, "raised")
        /\ outcome.kind = "raise" =>
               /\ outcome.exc.at = "_get_fabric_token"
               /\ CountOp(events, "POST.primary") = 0

\* the primary POST answered 200 with a body that cannot be parsed
C9_Witness ==
    /\ call.fn = "get_semantic_model_relationships"
    /\ HasRaised
    /\ FirstRaised.type \in {"ValueError", "IndexError"}
    /\ outcome.kind = "return"
    /\ outcome.value = <<>>

\* the dataset listing the call read, and whether a name in it holds the
\* configured lakehouse name
ListingRead ==
    IF AnswerOf("response.datasets").json = "value"
    THEN AnswerOf("response.datasets").value ELSE <<>>

NoDatasetMatches ==
    /\ CountOp(events, "response.datasets") = 1
    /\ AnswerOf("response.datasets").status = 200
    /\ AnswerOf("response.datasets").json \in {"value", "no_value"}
    /\ \A i \in 1..Len(ListingRead) :
           ~OccursIgnoringCase(LakehouseNameChars(env[LAKEHOUSE_NAME]), ListingRead[i].name)

RelationshipPosts == CountOp(events, "POST.primary") + CountOp(events, "POST.dmv")

\* C17: in get_lakehouse_semantic_relationships and get_semantic_model_info
\* the dataset listing GET comes before any relationship POST; when no dataset
\* matches no POST is sent and the result is the empty list, respectively a
\* record with found = FALSE; and a call sends at most two POSTs, the primary
\* and then at most one fallback.
C17_ListingBeforeRelationships ==
    call.fn \in {"get_lakehouse_semantic_relationships", "get_semantic_model_info"} =>
        /\ CountOp(events, "GET.datasets") <= 1
        /\ RelationshipPosts > 0 =>
               /\ CountOp(events, "GET.datasets") = 1
               /\ FirstIndex(events, "GET.datasets") < FirstIndex(events, "POST.primary")
        /\ CountOp(events, "POST.primary") <= 1
        /\ CountOp(events, "POST.dmv") <= 1
        /\ CountOp(events, "POST.dmv") = 1 =>
               /\ CountOp(events, "POST.primary") = 1
               /\ FirstIndex(events, "POST.primary") < FirstIndex(events, "POST.dmv")
        /\ NoDatasetMatches =>
               /\ RelationshipPosts = 0
               /\ outcome.kind = "return"
               /\ call.fn = "get_lakehouse_semantic_relationships" => outcome.value = <<>>
               /\ call.fn = "get_semantic_model_info" => outcome.value.found = FALSE

\* a listing of two datasets, neither named after the lakehouse, was read
\* and the call handed back the empty list
C17_Witness ==
    /\ call.fn = "get_lakehouse_semantic_relationships"
    /\ NoDatasetMatches
    /\ Len(ListingRead) = 2
    /\ outcome.kind = "return"
    /\ outcome.value = <<>>

----------------------------------------------------------------------------
(* The standalone script: run_list_datasources_and_tables.py *)

TokenChars == {"a", "b"}
Tokens == UNION {[1..n -> TokenChars] : n \in 1..MaxTokenLen}

CharCode(c) == IF c = "a" THEN 97 ELSE 98

\* token.encode("utf-16-le"): two bytes a character, low byte first
Utf16le(token) ==
    [i \in 1..(2 * Len(token)) |-> IF i % 2 = 1 THEN CharCode(token[(i + 1) \div 2]) ELSE 0]

\* get_token_bytes, lines 41-51: the bytearray of the encoded token
get_token_bytes(token) == Utf16le(token)

DsRowValues == {<<"src1", "HADOOP", "abfss://x">>}
DsResultSets == UNION {[1..n -> DsRowValues] : n \in 0..MaxRows}
TableResultSets == UNION {[1..n -> {<<"dbo", "t1">>}] : n \in 0..MaxRows}

\* the longest the try body gets: eight fixed steps and, for each query,
\* a heading and a line a row
MaxTrySteps == 8 + 2 * (MaxRows + 1)

\* what the outside world does during one run: which print of lines 77, 80
\* and 129 fails, which step of the try body fails (0: none), what the
\* credential and the queries answer, what fails in the except clause and
\* whether close() fails
Runs ==
    [p77 : {"ok", "err"}, p80 : {"ok", "err"}, fail : 0..MaxTrySteps,
     token : Tokens, datasources : DsResultSets, tables : TableResultSets,
     handler : {"ok", "print", "traceback"}, close : {"ok", "err"},
     done : {"ok", "err"}]

Step(name, ev, exc) == [name |-> name, ev |-> ev, exc |-> exc]

PrintError(line) == Exc("OSError", "print", <<line>>)
PrintStep(line, text) == Step("print", Ev("print", text), PrintError(line))

\* the lines printed for a query result, lines 91-97 and 101-106
RowPrints(rows, line, heading, nothing) ==
    IF rows # <<>>
    THEN <<PrintStep(line, heading)>> \o [i \in 1..Len(rows) |-> PrintStep(line + 2, "row")]
    ELSE <<PrintStep(line + 5, nothing)>>

\* the try body, lines 84-106, as the list of its steps
TrySteps(w) ==
    <<PrintStep(85, "Acquiring Azure AD token"),
      Step("get_token_bytes", Ev("get_token_bytes", get_token_bytes(w.token)),
           Exc("ClientAuthenticationError", "get_token_bytes", <<>>)),
      PrintStep(87, "Connecting to the SQL endpoint"),
      Step("connect", Ev("connect", 1), DriverError("pyodbc.connect")),
      PrintStep(89, "Connected"),
      Step("list_rows", Ev("execute", "SQL_DATASOURCES_QUERY"), DriverError("list_rows"))>>
    \o RowPrints(w.datasources, 92, "External data sources:", "No external data sources found")
    \o <<PrintStep(99, "Querying tables"),
         Step("list_rows", Ev("execute", "SQL_TABLES_QUERY"), DriverError("list_rows"))>>
    \o RowPrints(w.tables, 102, "Tables:", "No tables found")

Exit(ev, code, exc) ==
    [events |-> ev \o <<Ev("exit", code)>>, kind |-> "exit", exc |-> exc,
     value |-> code, conn |-> NoConn]

\* the try statement up to its finally clause, lines 84-111: the steps taken,
\* what is on its way out of the statement ("none", "SystemExit" of line 111,
\* or an exception no clause took), the connection and the token buffer
MainTry(w) ==
    LET steps == TrySteps(w)
        k     == IF w.fail \in 1..Len(steps) THEN w.fail ELSE 0
        done  == IF k = 0 THEN steps ELSE SubSeq(steps, 1, k - 1)
        ev    == [i \in 1..Len(done) |-> done[i].ev]
        conn  == IF \E i \in 1..Len(done) : done[i].name = "connect" THEN 1 ELSE NoConn
        has   == \E i \in 1..Len(done) : done[i].name = "get_token_bytes"
        st    == [events |-> ev, pending |-> "none", exc |-> NoExc, conn |-> conn,
                  has_token |-> has, token_bytes |-> IF has THEN get_token_bytes(w.token) ELSE <<>>]
        raised == ev \o <<Raised(steps[k].exc)>>
    IN  IF k = 0 THEN st
        ELSE IF w.handler = "print"
        THEN [st EXCEPT !.events = raised \o <<Raised(PrintError(109))>>,
                        !.pending = "exception", !.exc = PrintError(109)]
        ELSE IF w.handler = "traceback"
        THEN [st EXCEPT !.events = raised \o <<Ev("print", "Error while querying the lakehouse:"),
                                              Raised(Exc("OSError", "traceback.print_exc", <<>>))>>,
                        !.pending = "exception",
                        !.exc = Exc("OSError", "traceback.print_exc", <<>>)]
        ELSE [st EXCEPT !.events = raised \o <<Ev("print", "Error while querying the lakehouse:"),
                                              Ev("traceback.print_exc", steps[k].exc.type),
                                              Ev("sys.exit", 2)>>,
                        !.pending = "SystemExit"]

\* the finally clause with close() outside any try statement
MainFinally_close_unguarded(st, w) ==
    IF st.conn # NoConn /\ w.close = "err"
    THEN [st EXCEPT !.events = st.events \o <<Ev("close", st.conn), Raised(DriverError("conn.close"))>>,
                    !.pending = "exception", !.exc = DriverError("conn.close")]
    ELSE [st EXCEPT !.events = st.events
                        \o (IF st.conn # NoConn THEN <<Ev("close", st.conn)>> ELSE <<>>)
                        \o (IF st.has_token
                            THEN <<Ev("zero", [i \in 1..Len(st.token_bytes) |-> 0])>> ELSE <<>>)]

\* the finally clause, lines 113-127: close() if there is a connection, then
\* every byte of the buffer set to 0, each inside its own try/except/pass
MainFinally(st, w) ==
    LET closing == IF st.conn = NoConn THEN <<>>
                   ELSE IF w.close = "err"
                   THEN <<Ev("close", st.conn), Ev("swallowed", DriverError("conn.close"))>>
                   ELSE <<Ev("close", st.conn)>>
        zeroing == IF st.has_token
                   THEN <<Ev("zero", [i \in 1..Len(st.token_bytes) |-> 0])>>
                   ELSE <<>>
    IN  [st EXCEPT !.events = st.events \o closing \o zeroing]

\* main, lines 73-129; an exception that leaves main ends the interpreter
\* with status 1
main(e, w) ==
    IF ~Truthy(e[SQL_ENDPOINT]) \/ ~Truthy(e[LAKEHOUSE_NAME])
    THEN IF w.p77 = "err"
         THEN Exit(<<Raised(PrintError(77))>>, 1, PrintError(77))
         ELSE Exit(<<Ev("print", "must be set in the environment"), Ev("sys.exit", 1)>>, 1, NoExc)
    ELSE IF w.p80 = "err"
    THEN Exit(<<Raised(PrintError(80))>>, 1, PrintError(80))
    ELSE LET f  == MainFinally(MainTry(w), w)
             ev == <<Ev("print", "Using endpoint")>> \o f.events
         IN  IF f.pending = "SystemExit" THEN Exit(ev, 2, NoExc)
             ELSE IF f.pending = "exception" THEN Exit(ev, 1, f.exc)
             ELSE IF w.done = "err"
             THEN Exit(ev \o <<Raised(PrintError(129))>>, 1, PrintError(129))
             ELSE Exit(ev \o <<Ev("print", "Done.")>>, 0, NoExc)

\* the script reads the endpoint and the database only
InitScript ==
    /\ env \in {e \in [EnvVars -> EnvValues] :
                   e[SEMANTIC_MODEL_CONNECTION] = None /\ e[WORKSPACE_ID] = None}
    /\ call = NoCall
    /\ events = <<>>
    /\ outcome = NoOutcome
    /\ openConns = {}

\* a run in which nothing fails and nothing is found
QuietRun ==
    [p77 |-> "ok", p80 |-> "ok", fail |-> 0, token |-> <<"a">>, datasources |-> <<>>,
     tables |-> <<>>, handler |-> "ok", close |-> "ok", done |-> "ok"]

\* one run of the script; the world is asked only for what the run uses
Run_main ==
    /\ Idle
    /\ IF ~Truthy(env[SQL_ENDPOINT]) \/ ~Truthy(env[LAKEHOUSE_NAME])
       THEN \E p \in {"ok", "err"} :
                LET w == [QuietRun EXCEPT !.p77 = p]
                IN  Finish([fn |-> "main", w |-> w], main(env, w))
       ELSE \E w \in Runs :
                /\ w.p77 = "ok"
                /\ Finish([fn |-> "main", w |-> w], main(env, w))

NextScript ==
    \/ Run_main
    \/ Respond

SpecScript == InitScript /\ [][NextScript]_vars

----------------------------------------------------------------------------
(* Properties of the script, checked under SpecScript *)

ScriptConfigMissing == ~Truthy(env[SQL_ENDPOINT]) \/ ~Truthy(env[LAKEHOUSE_NAME])

ExitCode == outcome.value

\* C12: the script exits with 1 when the endpoint or the database is missing,
\* before any token is acquired or connection opened; with 2 when any step
\* after that raises; and prints "Done." and exits normally only when no
\* step raised.
C12_ExitCodes ==
    call.fn = "main" =>
        /\ ScriptConfigMissing =>
               /\ ExitCode = 1
               /\ CountOp(events, "get_token_bytes") = 0
               /\ CountOp(events, "connect") = 0
        /\ (~ScriptConfigMissing /\ HasRaised) => ExitCode = 2
        /\ ExitCode = 0 =>
               /\ ~HasRaised
               /\ events[Len(events) - 1] = Ev("print", "Done.")

\* the bytes the run acquired and what the finally clause left of them
AcquiredBytes == events[FirstIndex(events, "get_token_bytes")].arg
ZeroedBytes == events[FirstIndex(events, "zero")].arg

\* C15: once the token was acquired, whichever way main is left, close() was
\* called on the connection if one was opened and every byte of the token
\* buffer was set to zero before the process exits, and the exit status is
\* the one the run has when close() does not fail.
C15_CleanupBeforeExit ==
    (call.fn = "main" /\ CountOp(events, "get_token_bytes") = 1) =>
        /\ CountOp(events, "close") = CountOp(events, "connect")
        /\ openConns = {}
        /\ CountOp(events, "connect") = 1 =>
               /\ FirstIndex(events, "connect") < FirstIndex(events, "close")
               /\ FirstIndex(events, "close") < FirstIndex(events, "exit")
        /\ CountOp(events, "zero") = 1
        /\ FirstIndex(events, "zero") < FirstIndex(events, "exit")
        /\ Len(ZeroedBytes) = Len(AcquiredBytes)
        /\ \A i \in 1..Len(ZeroedBytes) : ZeroedBytes[i] = 0
        /\ ExitCode = main(env, [call.w EXCEPT !.close = "ok"]).value

\* close() failed after a successful run: the buffer held a token and the
\* run still ends normally
C15_Witness ==
    /\ call.fn = "main"
    /\ CountOp(events, "swallowed") = 1
    /\ CountOp(events, "zero") = 1
    /\ \E i \in 1..Len(AcquiredBytes) : AcquiredBytes[i] # 0
    /\ Len(AcquiredBytes) = 4
    /\ ExitCode = 0

====
